---- MODULE Spec2Model ----
(***************************************************************************)
(* Model of the crawl engine of the brave-search backend.                  *)
(*                                                                         *)
(* Three crawl variants live in the repository and are modelled side by    *)
(* side:                                                                   *)
(*   "api_crawl"  app/api/crawl.py  breadth-first, served by app/main.py   *)
(*   "crawl"      app/crawl.py      depth-first recursive (app/utils.py)   *)
(*   "crawler"    app/crawler.py    depth-first recursive, self-contained  *)
(*                                                                         *)
(* Strings are sequences of atoms.  An atom is a string that the modelled  *)
(* inputs never split: "https", "://", a one-letter host label or path     *)
(* segment, ".", "/", "#", " ".  startswith, `in` and concatenation are    *)
(* exact on such sequences.                                                *)
(***************************************************************************)
EXTENDS Integers, Sequences, FiniteSets, TLC

\* ------------------------------------------------------------------------
\* Bounds on the inputs
\* ------------------------------------------------------------------------

\* largest max_depth / depth argument a call is started with; the smallest
\* is -1
MaxDepth == 2

\* largest number of lines of a robots.txt
MaxLines == 3

\* largest number of anchors of a page handed to the Link Extractor alone
MaxHrefs == 3

\* largest number of words of a text handed to chunk_text alone
MaxWords == 7

\* largest chunk_size handed to chunk_text alone
MaxChunkSize == 4

\* largest overlap handed to chunk_text alone, in tenths
MaxOverlap == 15
\* the largest number of <li> children of a list element
MaxItems == 3
\* the largest depth argument of a recursive crawl over a chain of pages
MaxRecursionDepth == 3

\* ------------------------------------------------------------------------
\* Program constants
\* ------------------------------------------------------------------------

INTERNAL_SERVER_ERROR == 500
FORBIDDEN == 403
OK == 200
BAD_REQUEST == 400

\* the defaults of chunk_text: chunk_size = 1000 and overlap = 0.1, the
\* overlap counted in tenths
DEFAULT_CHUNK_SIZE == 1000
DEFAULT_OVERLAP == 1

\* ------------------------------------------------------------------------
\* Strings
\* ------------------------------------------------------------------------

\* str.startswith
StartsWith(s, p) == Len(p) <= Len(s) /\ SubSeq(s, 1, Len(p)) = p

\* the `in` operator on strings (substring test)
Contains(s, k) == \E i \in 0..(Len(s) - Len(k)) : SubSeq(s, i + 1, i + Len(k)) = k

\* smallest index >= i of s holding an atom of stops, Len(s) + 1 if none
RECURSIVE FirstIndex(_, _, _)
FirstIndex(s, stops, i) ==
  IF i > Len(s) THEN Len(s) + 1
  ELSE IF s[i] \in stops THEN i
  ELSE FirstIndex(s, stops, i + 1)

\* smallest index >= i of s holding an atom outside allowed, Len(s) + 1 if none
RECURSIVE FirstOutside(_, _, _)
FirstOutside(s, allowed, i) ==
  IF i > Len(s) THEN Len(s) + 1
  ELSE IF s[i] \notin allowed THEN i
  ELSE FirstOutside(s, allowed, i + 1)

\* largest index of s holding atom c, 0 if none
RECURSIVE LastIndex(_, _, _)
LastIndex(s, c, i) ==
  IF i = 0 THEN 0
  ELSE IF s[i] = c THEN i
  ELSE LastIndex(s, c, i - 1)

\* str.rstrip("/")
RECURSIVE RStripSlash(_)
RStripSlash(s) ==
  IF s # <<>> /\ s[Len(s)] = "/" THEN RStripSlash(SubSeq(s, 1, Len(s) - 1)) ELSE s

\* atoms matched by [a-zA-Z0-9-]+
Alnum ==
  {"a", "b", "c", "g", "h", "p", "q", "x", "www", "8080", "localhost", "not", "url", "Allow",
   "Disallow"}

\* ------------------------------------------------------------------------
\* urllib.parse
\* ------------------------------------------------------------------------

HasScheme(u) == Len(u) >= 2 /\ u[2] = "://"

\* urlparse(u): scheme, netloc and path of an absolute or relative reference
urlparse(u) ==
  LET pstart == IF HasScheme(u) THEN FirstIndex(u, {"/", "?", "#"}, 3) ELSE 1
      pend   == FirstIndex(u, {"?", "#"}, pstart)
  IN  [scheme |-> IF HasScheme(u) THEN u[1] ELSE "",
       netloc |-> IF HasScheme(u) THEN SubSeq(u, 3, pstart - 1) ELSE <<>>,
       path   |-> SubSeq(u, pstart, pend - 1)]

\* f"{parsed_url.scheme}://{parsed_url.netloc}"
get_base_url(url) == <<urlparse(url).scheme, "://">> \o urlparse(url).netloc

\* urljoin(base, ref) for the references of the model: an absolute URL, a
\* "//host/path" reference, a root-relative path, a bare relative path, or
\* the empty string; no dot segments inside ref
urljoin(base, ref) ==
  LET b    == urlparse(base)
      root == <<b.scheme, "://">> \o b.netloc
      dir  == SubSeq(b.path, 1, LastIndex(b.path, "/", Len(b.path)))
  IN  IF ref = <<>> THEN base
      ELSE IF HasScheme(ref) THEN ref
      ELSE IF ref[1] = "//" THEN <<b.scheme, "://">> \o Tail(ref)
      ELSE IF ref[1] = "/" THEN root \o ref
      ELSE root \o (IF dir = <<>> THEN <<"/">> ELSE dir) \o ref

\* ------------------------------------------------------------------------
\* URL Policy
\* ------------------------------------------------------------------------

\* [a-zA-Z0-9-]+(?:\.[a-zA-Z0-9-]+)+ : labels of Alnum atoms joined by single
\* dots, at least one dot
IsDottedHost(h) ==
  /\ h # <<>>
  /\ \A i \in 1..Len(h) : h[i] \in Alnum \cup {"."}
  /\ h[1] # "." /\ h[Len(h)] # "."
  /\ \E i \in 1..Len(h) : h[i] = "."
  /\ \A i \in 1..(Len(h) - 1) : ~(h[i] = "." /\ h[i + 1] = ".")

\* re.match(r"^(?:http|ftp)s?://(?:www\.)?[a-zA-Z0-9-]+(?:\.[a-zA-Z0-9-]+)+(/[^ ]*)?$", url)
\* ("www." is itself a label and a dot, so the optional group adds nothing)
is_url_valid(url) ==
  /\ HasScheme(url)
  /\ url[1] \in {"http", "https", "ftp", "ftps"}
  /\ LET hend == FirstOutside(url, Alnum \cup {"."}, 3)
     IN  /\ IsDottedHost(SubSeq(url, 3, hend - 1))
         /\ \/ hend > Len(url)
            \/ /\ url[hend] = "/"
               /\ \A i \in hend..Len(url) : url[i] # " "

\* ------------------------------------------------------------------------
\* Robots Evaluator
\*
\* A robots.txt response is [kind, status, text]: kind "error" is a
\* requests.RequestException raised by requests.get itself (connection
\* error, timeout), kind "response" carries an HTTP status and the body as a
\* sequence of lines.
\* ------------------------------------------------------------------------

\* str.strip() (the only whitespace atom is " ")
RECURSIVE Strip(_)
Strip(s) ==
  IF s # <<>> /\ s[1] = " " THEN Strip(Tail(s))
  ELSE IF s # <<>> /\ s[Len(s)] = " " THEN Strip(SubSeq(s, 1, Len(s) - 1))
  ELSE s

\* line.split(":", 1)[1].strip() of a line whose first atom is the directive
\* with its colon
DirectiveValue(line) == Strip(Tail(line))

NoRules == [Allow |-> <<>>, Disallow |-> <<>>]

\* ParseLine keeping the paths an agent already has when its User-agent line
\* comes again: rules.setdefault(current_user_agent, {...})
ParseLineKeep(st, raw) ==
  LET line == Strip(raw)
      cur  == st.current_user_agent
      truthy == cur # <<>> /\ cur[1] # <<>>
  IN  IF StartsWith(line, <<"User-agent:">>)
      THEN [rules |-> st.rules @@ (DirectiveValue(line) :> NoRules),
            current_user_agent |-> <<DirectiveValue(line)>>]
      ELSE IF truthy /\ StartsWith(line, <<"Allow:">>)
      THEN [st EXCEPT !.rules[cur[1]].Allow = Append(@, DirectiveValue(line))]
      ELSE IF truthy /\ StartsWith(line, <<"Disallow:">>)
      THEN [st EXCEPT !.rules[cur[1]].Disallow = Append(@, DirectiveValue(line))]
      ELSE st

\* one iteration of the parsing loop: st = [rules, current_user_agent], where
\* current_user_agent is <<>> for None and <<agent>> otherwise
ParseLine(st, raw) ==
  LET line == Strip(raw)
      cur  == st.current_user_agent
      truthy == cur # <<>> /\ cur[1] # <<>>
  IN  IF StartsWith(line, <<"User-agent:">>)
      THEN [rules |-> (DirectiveValue(line) :> NoRules) @@ st.rules,
            current_user_agent |-> <<DirectiveValue(line)>>]
      ELSE IF truthy /\ StartsWith(line, <<"Allow:">>)
      THEN [st EXCEPT !.rules[cur[1]].Allow = Append(@, DirectiveValue(line))]
      ELSE IF truthy /\ StartsWith(line, <<"Disallow:">>)
      THEN [st EXCEPT !.rules[cur[1]].Disallow = Append(@, DirectiveValue(line))]
      ELSE st

RECURSIVE ParseLines(_, _, _)
ParseLines(st, lines, i) ==
  IF i > Len(lines) THEN st ELSE ParseLines(ParseLine(st, lines[i]), lines, i + 1)

\* get_crawling_rules(robots_content): user agent -> [Allow, Disallow]
get_crawling_rules(lines) ==
  ParseLines([rules |-> <<>>, current_user_agent |-> <<>>], lines, 1).rules

\* requests.get + raise_for_status: "RequestException" when the call raises,
\* "HTTPError" when raise_for_status raises (4xx, 5xx), else "ok"
RequestOutcome(resp) ==
  IF resp.kind = "error" THEN "RequestException"
  ELSE IF resp.status >= BAD_REQUEST THEN "HTTPError"
  ELSE "ok"

\* any(url.startswith(urljoin(base_url, path)) for path in paths)
AnyPrefix(url, base_url, paths) ==
  \E i \in 1..Len(paths) : StartsWith(url, urljoin(base_url, paths[i]))

\* app/lib/utils.py is_crawling_allowed: the rules are looked up under the
\* key "Disallow" of a mapping keyed by user agent; when an agent of that name
\* exists the loop runs over the keys "Allow", "Disallow" of its entry
lib_is_crawling_allowed(url, resp) ==
  IF RequestOutcome(resp) # "ok" THEN "True"
  ELSE IF resp.status = OK
  THEN LET rules == get_crawling_rules(resp.text)
       IN  IF <<"Disallow">> \notin DOMAIN rules THEN "True"
           ELSE IF Contains(url, <<"Allow">>) \/ Contains(url, <<"Disallow">>) THEN "False"
           ELSE "True"
  ELSE "True"

\* app/utils.py is_crawling_allowed with `if any(allow)` tested before
\* `if any(disallow)`
utils_is_crawling_allowed_allow_first(url, resp) ==
  IF RequestOutcome(resp) # "ok" THEN "True"
  ELSE IF resp.status = OK
  THEN LET rules == get_crawling_rules(resp.text)
           matched_rules == IF <<"*">> \in DOMAIN rules THEN rules[<<"*">>] ELSE NoRules
       IN  IF AnyPrefix(url, get_base_url(url), matched_rules.Allow) THEN "True"
           ELSE IF AnyPrefix(url, get_base_url(url), matched_rules.Disallow) THEN "False"
           ELSE "True"
  ELSE "True"

\* app/utils.py is_crawling_allowed
utils_is_crawling_allowed(url, resp) ==
  IF RequestOutcome(resp) # "ok" THEN "True"
  ELSE IF resp.status = OK
  THEN LET rules == get_crawling_rules(resp.text)
           matched_rules == IF <<"*">> \in DOMAIN rules THEN rules[<<"*">>] ELSE NoRules
       IN  IF AnyPrefix(url, get_base_url(url), matched_rules.Disallow) THEN "False"
           ELSE IF AnyPrefix(url, get_base_url(url), matched_rules.Allow) THEN "True"
           ELSE "True"
  ELSE "True"

\* the Disallow loop of app/crawler.py: empty paths are skipped
NonEmpty(paths) == SelectSeq(paths, LAMBDA p : p # <<>>)

\* the except clause of app/crawler.py: error.response is None when
\* requests.get itself raised, and None.status_code is an AttributeError
crawler_on_exception(resp) ==
  IF resp.kind = "error" THEN "AttributeError"
  ELSE IF resp.status \in {404, 400, 307} THEN "True"
  ELSE "False"

\* app/crawler.py is_crawling_allowed
crawler_is_crawling_allowed(url, resp) ==
  IF RequestOutcome(resp) # "ok" THEN crawler_on_exception(resp)
  ELSE IF resp.status = 200
  THEN LET rules == get_crawling_rules(resp.text)
       IN  IF <<"*">> \notin DOMAIN rules THEN "True"
           ELSE IF AnyPrefix(url, get_base_url(url), NonEmpty(rules[<<"*">>].Disallow))
           THEN "False"
           ELSE IF AnyPrefix(url, get_base_url(url), rules[<<"*">>].Allow) THEN "True"
           ELSE "True"
  ELSE "True"

\* ------------------------------------------------------------------------
\* The modelled web
\* ------------------------------------------------------------------------

Origin == <<"https", "://", "h", ".", "c">>

\* the root of the crawls of the host h.c
RootUrl == Origin \o <<"/", "a">>
\* two pages below the root's path; UrlP holds "/p", used as an omit keyword,
\* and is the path robots.txt may disallow
UrlB == Origin \o <<"/", "a", "/", "b">>
UrlP == Origin \o <<"/", "a", "/", "p">>
\* a page of the same host outside the root's path
UrlX == Origin \o <<"/", "x">>
\* a page of another host
UrlG == <<"https", "://", "g", ".", "c", "/", "a">>

\* a page of a host whose name has no dot: it answers, and the URL Policy
\* rejects its url
UrlLocal == <<"http", "://", "localhost", "/", "a">>

Core == {RootUrl, UrlB, UrlP}
Pages == Core \cup {UrlX, UrlLocal}

\* the url arguments of the top-level calls
Roots == {RootUrl, UrlLocal}

\* the href under which a page links to a core page: absolute or
\* root-relative
HrefTo(target) == IF target = UrlB THEN <<"/", "a", "/", "b">> ELSE target

\* hrefs every root page carries besides its links to core pages: a
\* root-relative link leaving the root's path, a link to another host, a
\* fragment link and a "./" link
RootExtras == << <<"/", "x">>, UrlG, <<"#", "a">>, <<".", "/", "b">> >>

\* all orderings of the set S
Perms(S) == {f \in [1..Cardinality(S) -> S] : \A i, j \in 1..Cardinality(S) : f[i] = f[j] => i = j}

\* the link lists a core page p may carry: the other core pages, any subset
\* of them in any order
LinkLists(p) ==
  UNION {{[i \in DOMAIN f |-> HrefTo(f[i])] : f \in Perms(T)} : T \in SUBSET (Core \ {p})}

\* the webs a crawl may run against: page -> the hrefs of its anchors in
\* document order
Webs ==
  {[p \in Pages |-> IF p = RootUrl THEN f[p] \o RootExtras
                    ELSE IF p \in Core THEN f[p] ELSE <<>>] :
     f \in {g \in [Core -> UNION {LinkLists(q) : q \in Core}] : \A q \in Core : g[q] \in LinkLists(q)}}

\* the robots.txt responses of the host
RobotsNotFound == [kind |-> "response", status |-> 404, text |-> <<>>]
RobotsUnavailable == [kind |-> "response", status |-> 503, text |-> <<>>]
RobotsTimeout == [kind |-> "error", status |-> 0, text |-> <<>>]
RobotsDisallowP ==
  [kind |-> "response", status |-> OK,
   text |-> << <<"User-agent:", " ", "*">>, <<"Disallow:", " ", "/", "a", "/", "p">> >>]

\* ------------------------------------------------------------------------
\* Link Extractor
\* ------------------------------------------------------------------------

\* the hrefs get_page_urls resolves: non-empty, no "#", not starting with
\* "./" or "../"
IsFollowedHref(link_url) ==
  /\ link_url # <<>>
  /\ ~Contains(link_url, <<"#">>)
  /\ ~StartsWith(link_url, <<".", "/">>)
  /\ ~StartsWith(link_url, <<".", ".", "/">>)

\* get_page_urls without the url itself at the head of the list
get_page_urls_links_only(url, hrefs) ==
  LET kept == SelectSeq(hrefs, LAMBDA h :
                IsFollowedHref(h) /\ urlparse(urljoin(url, h)).netloc = urlparse(url).netloc)
  IN  [i \in 1..Len(kept) |-> urljoin(url, kept[i])]

\* get_page_urls without the comparison of the network locations
get_page_urls_any_host(url, hrefs) ==
  LET kept == SelectSeq(hrefs, IsFollowedHref)
  IN  <<url>> \o [i \in 1..Len(kept) |-> urljoin(url, kept[i])]

\* get_page_urls(url) / retrieve_page_urls(url) on a page with the given
\* hrefs: the url itself, then every followed href resolved against url
\* whose netloc equals url's
get_page_urls(url, hrefs) ==
  LET kept == SelectSeq(hrefs, LAMBDA h :
                IsFollowedHref(h) /\ urlparse(urljoin(url, h)).netloc = urlparse(url).netloc)
  IN  <<url>> \o [i \in 1..Len(kept) |-> urljoin(url, kept[i])]

\* ------------------------------------------------------------------------
\* Ingestion Sink: chunk_text and add_page_to_collection of app/lib.  A text
\* is the sequence of its words; overlap is a number of tenths, and
\* int(chunk_size * overlap) of a non-negative product is its floor.
\* ------------------------------------------------------------------------

\* StepSize with no overlap at all: every chunk starts chunk_size words on
StepSizeNoOverlap(chunk_size, overlap) == chunk_size

\* chunk_size - overlap_size, the step of the range
StepSize(chunk_size, overlap) == chunk_size - ((chunk_size * overlap) \div 10)

\* range(0, len(words), chunk_size - overlap_size) raises ValueError for a
\* step of zero
chunk_text_raises(chunk_size, overlap) == StepSize(chunk_size, overlap) = 0

\* the values i takes in the loop from i on: the range is empty for a
\* negative step, and the loop breaks once i + chunk_size >= len(words)
RECURSIVE ChunkStarts(_, _, _, _)
ChunkStarts(i, n, chunk_size, step) ==
  IF step < 0 \/ i >= n THEN <<>>
  ELSE IF i + chunk_size >= n THEN <<i>>
  ELSE <<i>> \o ChunkStarts(i + step, n, chunk_size, step)

\* words[i : i + chunk_size]
Slice(words, i, j) ==
  LET lo == IF i < 0 THEN 0 ELSE i
      hi == IF j < 0 THEN 0 ELSE IF j > Len(words) THEN Len(words) ELSE j
  IN  SubSeq(words, lo + 1, hi)

\* chunk_text(text, chunk_size, overlap) when it returns
chunk_text(words, chunk_size, overlap) ==
  LET starts == ChunkStarts(0, Len(words), chunk_size, StepSize(chunk_size, overlap))
  IN  [k \in 1..Len(starts) |-> Slice(words, starts[k], starts[k] + chunk_size)]

\* the text of n words, each word standing for its position
Words(n) == [k \in 1..n |-> k]

\* the number of words of the Markdown extracted from each page
PageWords(u) ==
  IF u = RootUrl THEN 2500
  ELSE IF u = UrlB THEN 0
  ELSE IF u = UrlP THEN 1000
  ELSE 1001

\* the ids add_page_to_collection writes for a page, in order:
\* f"{url}#chunk-{i}" for i, chunk in enumerate(chunk_text(text))
ChunkIds(u) ==
  LET n == Len(ChunkStarts(0, PageWords(u), DEFAULT_CHUNK_SIZE,
                           StepSize(DEFAULT_CHUNK_SIZE, DEFAULT_OVERLAP)))
  IN  [i \in 1..n |-> [url |-> u, chunk |-> i - 1]]

\* ------------------------------------------------------------------------
\* State
\* ------------------------------------------------------------------------

VARIABLES
  variant,            \* which crawl function is called
  web,                \* page -> hrefs
  robots,             \* the robots.txt response of the host
  url,                \* the url argument of the top-level call
  max_depth,          \* its max_depth (api_crawl) or depth (crawl, crawler) argument
  omit_url_keywords,  \* its omit_url_keywords argument (api_crawl)
  pc,                 \* position of the top-level call
  base_path,          \* api_crawl: urlparse(url).path.rstrip("/")
  round,              \* api_crawl: iterations of the outer loop started
  urls_to_crawl,      \* api_crawl: the frontier
  new_urls_to_crawl,  \* api_crawl: the next frontier
  todo,               \* api_crawl: frontier urls the inner loop has not reached
  current_url,        \* api_crawl: the url the inner loop is at
  visited_urls,       \* the visited set of the call
  crawled_data,       \* api_crawl: the records collected
  stack,              \* crawl, crawler: the frames of the recursion
  result,             \* outcome of the top-level call
  log,                \* observable events in order: GETs, sleeps, checks, additions to
                      \* visited_urls, calls of get_page_urls
  answers,            \* is_crawling_allowed(url) as answered by each implementation
  sink,               \* the chunk ids written to the collection, in order
  text,               \* chunk_text alone: its text argument
  chunk_size,         \* chunk_text alone: its chunk_size argument
  overlap,            \* chunk_text alone: its overlap argument, in tenths
  chunks,             \* chunk_text alone: the list it returned
  calls               \* concurrent requests: call id -> the locals of its crawl

vars == <<variant, web, robots, url, max_depth, omit_url_keywords, pc, base_path,
          round, urls_to_crawl, new_urls_to_crawl, todo, current_url, visited_urls,
          crawled_data, stack, result, log, answers, sink, text, chunk_size, overlap,
          chunks, calls>>

inputs == <<variant, web, robots, url, max_depth, omit_url_keywords>>
chunking == <<text, chunk_size, overlap, chunks>>
bfs_locals == <<base_path, round, urls_to_crawl, new_urls_to_crawl, todo, current_url, crawled_data>>

Event(ev, u) == [ev |-> ev, url |-> u]

Running == [status |-> "running", code |-> 0, data |-> <<>>]
Returned(data) == [status |-> "returned", code |-> OK, data |-> data]
Raised(code) == [status |-> "raised", code |-> code, data |-> <<>>]

\* a frame of get_parsed_website_content / parse_website_content at its
\* first line
NewFrame(u, d) ==
  [url |-> u, depth |-> d, pc |-> "enter", crawled_data |-> <<>>, links |-> <<>>, i |-> 1]

robots_url(u) == urljoin(get_base_url(u), <<"robots.txt">>)

\* chunk_text is not being called on its own
NoChunking ==
  /\ text = <<>>
  /\ chunk_size = DEFAULT_CHUNK_SIZE
  /\ overlap = DEFAULT_OVERLAP
  /\ chunks = <<>>

Init ==
  /\ web \in Webs
  /\ url \in Roots
  /\ max_depth \in (-1)..MaxDepth
  /\ \/ /\ variant = "api_crawl"
        /\ robots \in {RobotsNotFound, RobotsDisallowP}
        /\ omit_url_keywords \in {<<>>, << <<"/", "p">> >>}
        /\ pc = "validate"
     \/ /\ variant = "crawl"
        /\ robots \in {RobotsNotFound}
        /\ omit_url_keywords = <<>>
        /\ pc = "recursion"
     \/ /\ variant = "crawler"
        /\ robots \in {RobotsNotFound, RobotsDisallowP, RobotsUnavailable, RobotsTimeout}
        /\ omit_url_keywords = <<>>
        /\ pc = "recursion"
  /\ base_path = <<>>
  /\ round = 0
  /\ urls_to_crawl = {}
  /\ new_urls_to_crawl = {}
  /\ todo = {}
  /\ current_url = <<>>
  /\ visited_urls = {}
  /\ crawled_data = <<>>
  /\ stack = IF variant = "api_crawl" THEN <<>> ELSE <<NewFrame(url, max_depth)>>
  /\ result = Running
  /\ log = <<>>
  /\ answers = <<>>
  /\ sink = <<>>
  /\ calls = <<>>
  /\ NoChunking

\* ------------------------------------------------------------------------
\* Fetching a page
\* ------------------------------------------------------------------------

\* what fetching and parsing a page can end in: "ok", or "error" for a
\* network error, a timeout, a 4xx/5xx status or a failure while parsing
\* or storing; a page outside the web never answers
\*   api_crawl: get_parsed_html of app/lib/utils.py
\*   crawler:   fetch_page
\*   crawl:     get_html_content of app/utils.py evaluates
\*              response.raise_for_status().text; raise_for_status returns
\*              None, so the call raises on every response
FetchOutcomes(v, u) ==
  IF v = "crawl" \/ u \notin DOMAIN web THEN {"error"} ELSE {"ok", "error"}

\* the chunk ids a failing get_parsed_page_content(u) has written: none when
\* the fetch or the parsing fails, the first k when storing chunk k + 1 fails
WrittenBeforeFailure(u) ==
  IF u \in DOMAIN web
  THEN {<<>>} \cup {SubSeq(ChunkIds(u), 1, k) : k \in 0..(Len(ChunkIds(u)) - 1)}
  ELSE {<<>>}

\* ------------------------------------------------------------------------
\* Breadth-first crawl: POST /crawl/website and
\* app/api/crawl.py get_parsed_website_content
\* ------------------------------------------------------------------------

\* Rounds with one iteration too few: range(max_depth)
RoundsOneLess(d) == d

\* Rounds with one iteration too many: range(max_depth + 2)
RoundsOneMore(d) == d + 2

\* number of iterations of `for _ in range(max_depth + 1)`
Rounds(d) == d + 1

\* IsUnvisited without the test: every url of the frontier is crawled
IsUnvisitedAlways(u, visited) == TRUE

\* `if current_url not in visited_urls`
IsUnvisited(u, visited) == u \notin visited

\* InScope without the path test of the link filter
InScopeAnyPath(link, bp, visited, new) ==
  /\ link \notin visited
  /\ link \notin new

\* the conjuncts of the link filter evaluated before is_url_valid
InScope(link, bp, visited, new) ==
  /\ StartsWith(urlparse(link).path, bp)
  /\ link \notin visited
  /\ link \notin new

\* HasOmitKeyword without the test: no link is omitted
HasOmitKeywordNever(link, omit) == FALSE

\* any(keyword in link for keyword in omit_url_keywords)
HasOmitKeyword(link, omit) == \E i \in 1..Len(omit) : Contains(link, omit[i])

\* the body of `for link in get_page_urls(current_url)`; st = [new, log]
StageLink(st, link, bp, visited, omit) ==
  IF ~InScope(link, bp, visited, st.new) THEN st
  ELSE LET checked == [st EXCEPT !.log = Append(@, Event("is_url_valid", link))]
       IN  IF is_url_valid(link) /\ ~HasOmitKeyword(link, omit)
           THEN [checked EXCEPT !.new = @ \cup {link}]
           ELSE checked

RECURSIVE StageLinks(_, _, _, _, _, _)
StageLinks(st, links, i, bp, visited, omit) ==
  IF i > Len(links) THEN st
  ELSE StageLinks(StageLink(st, links[i], bp, visited, omit), links, i + 1, bp, visited, omit)

\* crawl_website: validate_url(request.url), then the first lines of
\* get_parsed_website_content
crawl_website ==
  /\ pc = "validate"
  /\ IF ~is_url_valid(url)
     THEN /\ log' = log \o <<Event("is_url_valid", url)>>
          /\ result' = Raised(BAD_REQUEST)
          /\ pc' = "error"
          /\ UNCHANGED <<urls_to_crawl, base_path>>
     ELSE IF lib_is_crawling_allowed(url, robots) # "True"
     THEN /\ log' = log \o <<Event("is_url_valid", url), Event("GET", robots_url(url)),
                            Event("is_crawling_allowed", url)>>
          /\ result' = Raised(FORBIDDEN)
          /\ pc' = "error"
          /\ UNCHANGED <<urls_to_crawl, base_path>>
     ELSE /\ log' = log \o <<Event("is_url_valid", url), Event("GET", robots_url(url)),
                            Event("is_crawling_allowed", url)>>
          /\ urls_to_crawl' = {url}
          /\ base_path' = RStripSlash(urlparse(url).path)
          /\ pc' = "round"
          /\ UNCHANGED result
  /\ UNCHANGED <<inputs, chunking, calls, sink, answers, round, new_urls_to_crawl, todo,
                 current_url, visited_urls, crawled_data, stack>>

\* the head of the outer loop, and `return crawled_data` after it
BfsRound ==
  /\ pc = "round"
  /\ IF round < Rounds(max_depth)
     THEN /\ round' = round + 1
          /\ new_urls_to_crawl' = {}
          /\ todo' = urls_to_crawl
          /\ pc' = "iter"
          /\ UNCHANGED result
     ELSE /\ pc' = "done"
          /\ result' = Returned(crawled_data)
          /\ UNCHANGED <<round, new_urls_to_crawl, todo>>
  /\ UNCHANGED <<inputs, chunking, calls, sink, answers, base_path, urls_to_crawl, current_url,
                 visited_urls, crawled_data, stack, log>>

\* crawled_data with the record put in front: crawled_data.insert(0, record)
AppendRecordFirst(data, u) == <<[url |-> u]>> \o data

\* crawled_data.append(page_content)
AppendRecord(data, u) == Append(data, [url |-> u])

\* the head of the inner loop: the next url of the frontier, in any order;
\* an unvisited one is slept for
BfsNextUrl ==
  /\ pc = "iter"
  /\ \E u \in todo :
       /\ todo' = todo \ {u}
       /\ current_url' = u
       /\ IF IsUnvisited(u, visited_urls)
          THEN /\ log' = Append(log, Event("sleep", u))
               /\ pc' = "content"
          ELSE UNCHANGED <<log, pc>>
  /\ UNCHANGED <<inputs, chunking, calls, sink, answers, base_path, round, urls_to_crawl,
                 new_urls_to_crawl, visited_urls, crawled_data, stack, result>>

\* the inner loop is exhausted: urls_to_crawl = new_urls_to_crawl
BfsEndRound ==
  /\ pc = "iter"
  /\ todo = {}
  /\ urls_to_crawl' = new_urls_to_crawl
  /\ pc' = "round"
  /\ UNCHANGED <<inputs, chunking, calls, sink, answers, base_path, round, new_urls_to_crawl,
                 todo, current_url, visited_urls, crawled_data, stack, result, log>>

\* page_content = get_parsed_page_content(current_url); visited_urls.add;
\* crawled_data.append.  The record is the page content of current_url; the
\* model keeps the url it was made from.  get_parsed_page_content stores the
\* chunks of the page before it returns.
BfsContent ==
  /\ pc = "content"
  /\ \E outcome \in FetchOutcomes(variant, current_url) :
       IF outcome = "ok"
       THEN /\ log' = log \o <<Event("GET", current_url), Event("visited_urls.add", current_url)>>
            /\ sink' = sink \o ChunkIds(current_url)
            /\ visited_urls' = visited_urls \cup {current_url}
            /\ crawled_data' = AppendRecord(crawled_data, current_url)
            /\ pc' = "links"
            /\ UNCHANGED result
       ELSE /\ log' = Append(log, Event("GET", current_url))
            /\ \E written \in WrittenBeforeFailure(current_url) : sink' = sink \o written
            /\ result' = Raised(INTERNAL_SERVER_ERROR)
            /\ pc' = "error"
            /\ UNCHANGED <<visited_urls, crawled_data>>
  /\ UNCHANGED <<inputs, chunking, calls, answers, base_path, round, urls_to_crawl,
                 new_urls_to_crawl, todo, current_url, stack>>

\* for link in get_page_urls(current_url): stage the links passing the filter
BfsLinks ==
  /\ pc = "links"
  /\ \E outcome \in FetchOutcomes(variant, current_url) :
       IF outcome = "ok"
       THEN LET st == StageLinks([new |-> new_urls_to_crawl,
                                  log |-> log \o <<Event("get_page_urls", current_url),
                                                    Event("GET", current_url)>>],
                                 get_page_urls(current_url, web[current_url]), 1,
                                 base_path, visited_urls, omit_url_keywords)
            IN  /\ new_urls_to_crawl' = st.new
                /\ log' = st.log
                /\ pc' = "iter"
                /\ UNCHANGED result
       ELSE /\ log' = log \o <<Event("get_page_urls", current_url), Event("GET", current_url)>>
            /\ result' = Raised(INTERNAL_SERVER_ERROR)
            /\ pc' = "error"
            /\ UNCHANGED new_urls_to_crawl
  /\ UNCHANGED <<inputs, chunking, calls, sink, answers, base_path, round, urls_to_crawl, todo,
                 current_url, visited_urls, crawled_data, stack>>

\* ------------------------------------------------------------------------
\* Depth-first crawls: app/crawl.py get_parsed_website_content and
\* app/crawler.py parse_website_content.  The top of the stack is the
\* running call.
\* ------------------------------------------------------------------------

Top == stack[Len(stack)]

\* the stack with the running frame replaced by f
WithTop(f) == [stack EXCEPT ![Len(stack)] = f]

\* `if depth == 0 or url in visited_urls: return []`
IsBaseCase(d, u, visited) == d = 0 \/ u \in visited

\* the running call returns data: the caller extends its crawled_data and
\* moves to the next link; the top-level call hands data to its caller
ReturnFrom(data) ==
  IF Len(stack) = 1
  THEN /\ stack' = <<>>
       /\ result' = Returned(data)
       /\ pc' = "done"
  ELSE /\ LET caller == stack[Len(stack) - 1]
          IN  stack' = [SubSeq(stack, 1, Len(stack) - 1) EXCEPT ![Len(stack) - 1] =
                          [caller EXCEPT !.crawled_data = @ \o data, !.i = @ + 1]]
       /\ UNCHANGED <<result, pc>>

\* an exception leaves every frame of the recursion
RaiseFrom(code) ==
  /\ stack' = <<>>
  /\ result' = Raised(code)
  /\ pc' = "error"

\* the Robots Evaluator each variant calls
is_crawling_allowed(v, u, resp) ==
  IF v = "api_crawl" THEN lib_is_crawling_allowed(u, resp)
  ELSE IF v = "crawl" THEN utils_is_crawling_allowed(u, resp)
  ELSE crawler_is_crawling_allowed(u, resp)

\* entry of the call: the base case, else visited_urls.add(url); crawl.py
\* sleeps before it
DfsEnter ==
  /\ pc = "recursion"
  /\ Top.pc = "enter"
  /\ IF IsBaseCase(Top.depth, Top.url, visited_urls)
     THEN /\ ReturnFrom(<<>>)
          /\ UNCHANGED <<visited_urls, log>>
     ELSE /\ visited_urls' = visited_urls \cup {Top.url}
          /\ log' = IF variant = "crawl"
                    THEN log \o <<Event("sleep", Top.url), Event("visited_urls.add", Top.url)>>
                    ELSE Append(log, Event("visited_urls.add", Top.url))
          /\ stack' = WithTop([Top EXCEPT !.pc = "content"])
          /\ UNCHANGED <<result, pc>>
  /\ UNCHANGED <<inputs, chunking, calls, sink, answers, bfs_locals>>

\* get_parsed_page_content(url) / parse_page_content(url) and the metadata;
\* crawl.py builds crawled_data here, crawler.py sleeps here
DfsContent ==
  /\ pc = "recursion"
  /\ Top.pc = "content"
  /\ \E outcome \in FetchOutcomes(variant, Top.url) :
       IF outcome = "ok"
       THEN /\ stack' = WithTop([Top EXCEPT
                          !.pc = "robots",
                          !.crawled_data = IF variant = "crawl"
                                           THEN <<[url |-> Top.url, depth |-> Top.depth]>>
                                           ELSE @])
            /\ log' = IF variant = "crawler"
                      THEN log \o <<Event("GET", Top.url), Event("sleep", Top.url)>>
                      ELSE Append(log, Event("GET", Top.url))
            /\ UNCHANGED <<result, pc>>
       ELSE /\ RaiseFrom(INTERNAL_SERVER_ERROR)
            /\ log' = Append(log, Event("GET", Top.url))
  /\ UNCHANGED <<inputs, chunking, calls, sink, answers, bfs_locals, visited_urls>>

\* `if not is_crawling_allowed(url): raise HTTPException(403)`; an exception
\* escaping is_crawling_allowed ends the request with a 500
DfsRobots ==
  /\ pc = "recursion"
  /\ Top.pc = "robots"
  /\ log' = log \o <<Event("GET", robots_url(Top.url)), Event("is_crawling_allowed", Top.url)>>
  /\ LET allowed == is_crawling_allowed(variant, Top.url, robots)
     IN  IF allowed = "True"
         THEN /\ stack' = WithTop([Top EXCEPT !.pc = "links"])
              /\ UNCHANGED <<result, pc>>
         ELSE IF allowed = "False"
         THEN RaiseFrom(FORBIDDEN)
         ELSE RaiseFrom(INTERNAL_SERVER_ERROR)
  /\ UNCHANGED <<inputs, chunking, calls, sink, answers, bfs_locals, visited_urls>>

\* get_page_urls(url) / retrieve_page_urls(url); crawler.py builds
\* crawled_data here
DfsLinks ==
  /\ pc = "recursion"
  /\ Top.pc = "links"
  /\ log' = log \o <<Event("get_page_urls", Top.url), Event("GET", Top.url)>>
  /\ \E outcome \in FetchOutcomes(variant, Top.url) :
       IF outcome = "ok"
       THEN /\ stack' = WithTop([Top EXCEPT
                          !.pc = "loop",
                          !.links = get_page_urls(Top.url, web[Top.url]),
                          !.crawled_data = IF variant = "crawler"
                                           THEN <<[url |-> Top.url, depth |-> Top.depth]>>
                                           ELSE @])
            /\ UNCHANGED <<result, pc>>
       ELSE RaiseFrom(INTERNAL_SERVER_ERROR)
  /\ UNCHANGED <<inputs, chunking, calls, sink, answers, bfs_locals, visited_urls>>

\* one iteration of `for link in ...`: an unvisited valid link is recursed
\* into with depth - 1
DfsLoop ==
  /\ pc = "recursion"
  /\ Top.pc = "loop"
  /\ Top.i <= Len(Top.links)
  /\ LET link == Top.links[Top.i]
     IN  IF link \in visited_urls
         THEN /\ stack' = WithTop([Top EXCEPT !.i = @ + 1])
              /\ UNCHANGED log
         ELSE /\ log' = Append(log, Event("is_url_valid", link))
              /\ stack' = IF is_url_valid(link)
                          THEN Append(stack, NewFrame(link, Top.depth - 1))
                          ELSE WithTop([Top EXCEPT !.i = @ + 1])
  /\ UNCHANGED <<inputs, chunking, calls, sink, answers, bfs_locals, visited_urls, result, pc>>

\* `return crawled_data` after the loop
DfsReturn ==
  /\ pc = "recursion"
  /\ Top.pc = "loop"
  /\ Top.i > Len(Top.links)
  /\ ReturnFrom(Top.crawled_data)
  /\ UNCHANGED <<inputs, chunking, calls, sink, answers, bfs_locals, visited_urls, log>>

Next ==
  \/ crawl_website
  \/ BfsRound
  \/ BfsNextUrl
  \/ BfsEndRound
  \/ BfsContent
  \/ BfsLinks
  \/ DfsEnter
  \/ DfsContent
  \/ DfsRobots
  \/ DfsLinks
  \/ DfsLoop
  \/ DfsReturn

Spec == Init /\ [][Next]_vars

\* a call that can take a step takes one: the interpreter keeps running the
\* handler, and every sleep and every request (timeout=10) comes back
SpecLive == Init /\ [][Next]_vars /\ WF_vars(Next)

\* ------------------------------------------------------------------------
\* The recursive crawls over a web where a page is reached by two routes
\* ------------------------------------------------------------------------

\* the root links to UrlB and UrlP in either order, UrlB may link to UrlP,
\* UrlP may link to UrlX and back to the root
RouteWebs ==
  {[p \in Pages |-> IF p = RootUrl THEN r
                    ELSE IF p = UrlB THEN b
                    ELSE IF p = UrlP THEN q
                    ELSE <<>>] :
     r \in {<<HrefTo(UrlB), UrlP>>, <<UrlP, HrefTo(UrlB)>>},
     b \in {<<>>, <<UrlP>>},
     q \in {<<>>, <<UrlX>>, <<UrlX, RootUrl>>}}

InitRecursive ==
  /\ web \in RouteWebs
  /\ url = RootUrl
  /\ max_depth \in 1..MaxRecursionDepth
  /\ variant \in {"crawl", "crawler"}
  /\ robots = RobotsNotFound
  /\ omit_url_keywords = <<>>
  /\ pc = "recursion"
  /\ base_path = <<>>
  /\ round = 0
  /\ urls_to_crawl = {}
  /\ new_urls_to_crawl = {}
  /\ todo = {}
  /\ current_url = <<>>
  /\ visited_urls = {}
  /\ crawled_data = <<>>
  /\ stack = <<NewFrame(url, max_depth)>>
  /\ result = Running
  /\ log = <<>>
  /\ answers = <<>>
  /\ sink = <<>>
  /\ calls = <<>>
  /\ NoChunking

NextRecursive ==
  \/ DfsEnter
  \/ DfsContent
  \/ DfsRobots
  \/ DfsLinks
  \/ DfsLoop
  \/ DfsReturn

SpecRecursive == InitRecursive /\ [][NextRecursive]_vars

\* ------------------------------------------------------------------------
\* The Robots Evaluator on its own: is_crawling_allowed(url) of the three
\* implementations applied to one robots.txt response
\* ------------------------------------------------------------------------

Implementations == {"api_crawl", "crawl", "crawler"}

\* the lines a robots.txt is made of
RobotsLines ==
  { <<"User-agent:", " ", "*">>,
    <<"User-agent:", " ", "b">>,
    <<"User-agent:", " ", "Disallow">>,
    <<"User-agent:">>,
    <<"Disallow:", " ", "/", "a", "/", "p">>,
    <<"Disallow:", " ", "a">>,
    <<"Disallow:">>,
    <<"Allow:", " ", "/", "a">> }

RobotsTexts == UNION {[1..n -> RobotsLines] : n \in 0..MaxLines}

RobotsResponses ==
  {[kind |-> "response", status |-> OK, text |-> t] : t \in RobotsTexts}
    \cup {[kind |-> "response", status |-> c, text |-> <<>>] :
            c \in {204, 400, 404, 500, 503}}
    \cup {RobotsTimeout}

\* the urls asked about
RobotsUrls == {RootUrl, UrlP, UrlP \o <<"/", "x">>, UrlX, Origin \o <<"/", "Allow">>}

InitRobots ==
  /\ variant = "is_crawling_allowed"
  /\ web = [p \in Pages |-> <<>>]
  /\ robots \in RobotsResponses
  /\ url \in RobotsUrls
  /\ max_depth = 0
  /\ omit_url_keywords = <<>>
  /\ pc = "evaluate"
  /\ base_path = <<>>
  /\ round = 0
  /\ urls_to_crawl = {}
  /\ new_urls_to_crawl = {}
  /\ todo = {}
  /\ current_url = <<>>
  /\ visited_urls = {}
  /\ crawled_data = <<>>
  /\ stack = <<>>
  /\ result = Running
  /\ log = <<>>
  /\ answers = <<>>
  /\ sink = <<>>
  /\ calls = <<>>
  /\ NoChunking

\* is_crawling_allowed(url) of each implementation on the same response
Evaluate ==
  /\ pc = "evaluate"
  /\ answers' = [v \in Implementations |-> is_crawling_allowed(v, url, robots)]
  /\ log' = Append(log, Event("GET", robots_url(url)))
  /\ pc' = "evaluated"
  /\ UNCHANGED <<inputs, chunking, calls, sink, bfs_locals, visited_urls, stack, result>>

NextRobots == Evaluate

SpecRobots == InitRobots /\ [][NextRobots]_vars

\* ------------------------------------------------------------------------
\* The Link Extractor on its own: get_page_urls(url) of app/api/crawl.py and
\* app/crawl.py, retrieve_page_urls(url) of app/crawler.py, applied to one
\* page
\* ------------------------------------------------------------------------

\* the href attributes an anchor may carry: absolute on the host h.c, absolute
\* on another host, "//host/path", root-relative, bare relative, fragment,
\* "./", "../" and empty
Hrefs ==
  { UrlB,
    UrlG,
    <<"//", "g", ".", "c", "/", "a">>,
    <<"/", "x">>,
    <<"b">>,
    <<"#", "a">>,
    <<".", "/", "b">>,
    <<".", ".", "/", "b">>,
    <<>> }

HrefLists == UNION {[1..n -> Hrefs] : n \in 0..MaxHrefs}

\* the urls whose page is read: with a path, with a deeper path, without a
\* path, and on a host without a dot
ExtractUrls == {RootUrl, UrlB, Origin, UrlLocal}

InitLinks ==
  /\ variant \in Implementations
  /\ url \in ExtractUrls
  /\ web \in {(url :> hrefs) : hrefs \in HrefLists}
  /\ robots = RobotsNotFound
  /\ max_depth = 0
  /\ omit_url_keywords = <<>>
  /\ pc = "get_page_urls"
  /\ base_path = <<>>
  /\ round = 0
  /\ urls_to_crawl = {}
  /\ new_urls_to_crawl = {}
  /\ todo = {}
  /\ current_url = <<>>
  /\ visited_urls = {}
  /\ crawled_data = <<>>
  /\ stack = <<>>
  /\ result = Running
  /\ log = <<>>
  /\ answers = <<>>
  /\ sink = <<>>
  /\ calls = <<>>
  /\ NoChunking

\* one call of get_page_urls(url): the page is fetched, and the list is
\* returned or the failure raised as a 500
ExtractLinks ==
  /\ pc = "get_page_urls"
  /\ log' = Append(log, Event("GET", url))
  /\ \E outcome \in FetchOutcomes(variant, url) :
       IF outcome = "ok"
       THEN /\ result' = Returned(get_page_urls(url, web[url]))
            /\ pc' = "done"
       ELSE /\ result' = Raised(INTERNAL_SERVER_ERROR)
            /\ pc' = "error"
  /\ UNCHANGED <<inputs, chunking, calls, sink, answers, bfs_locals, visited_urls, stack>>

NextLinks == ExtractLinks

SpecLinks == InitLinks /\ [][NextLinks]_vars

\* ------------------------------------------------------------------------
\* POST /crawl/page: crawl_page of app/main.py
\* ------------------------------------------------------------------------

\* the urls posted: those the Robots Evaluator is asked about, a url on a
\* host without a dot and a url with a space in its path
PageUrls == RobotsUrls \cup {UrlLocal, RootUrl \o <<" ", "b">>}

InitPage ==
  /\ variant = "api_crawl"
  /\ web = [p \in Pages |-> <<>>]
  /\ robots \in RobotsResponses
  /\ url \in PageUrls
  /\ max_depth = 0
  /\ omit_url_keywords = <<>>
  /\ pc = "crawl_page"
  /\ base_path = <<>>
  /\ round = 0
  /\ urls_to_crawl = {}
  /\ new_urls_to_crawl = {}
  /\ todo = {}
  /\ current_url = <<>>
  /\ visited_urls = {}
  /\ crawled_data = <<>>
  /\ stack = <<>>
  /\ result = Running
  /\ log = <<>>
  /\ answers = <<>>
  /\ sink = <<>>
  /\ calls = <<>>
  /\ NoChunking

\* crawl_page: validate_url(request.url)
crawl_page ==
  /\ pc = "crawl_page"
  /\ IF ~is_url_valid(url)
     THEN /\ log' = log \o <<Event("is_url_valid", url)>>
          /\ result' = Raised(BAD_REQUEST)
          /\ pc' = "error"
     ELSE IF lib_is_crawling_allowed(url, robots) # "True"
     THEN /\ log' = log \o <<Event("is_url_valid", url), Event("GET", robots_url(url)),
                            Event("is_crawling_allowed", url)>>
          /\ result' = Raised(FORBIDDEN)
          /\ pc' = "error"
     ELSE /\ log' = log \o <<Event("is_url_valid", url), Event("GET", robots_url(url)),
                            Event("is_crawling_allowed", url)>>
          /\ pc' = "page_content"
          /\ UNCHANGED result
  /\ UNCHANGED <<inputs, chunking, calls, sink, answers, bfs_locals, visited_urls, stack>>

\* return get_parsed_page_content(request.url): the page is fetched, parsed
\* and stored, and its content returned; any failure is raised as a 500
PageContent ==
  /\ pc = "page_content"
  /\ log' = Append(log, Event("GET", url))
  /\ \E outcome \in FetchOutcomes(variant, url) :
       IF outcome = "ok"
       THEN /\ sink' = sink \o ChunkIds(url)
            /\ result' = Returned(<<[url |-> url]>>)
            /\ pc' = "done"
       ELSE /\ \E written \in WrittenBeforeFailure(url) : sink' = sink \o written
            /\ result' = Raised(INTERNAL_SERVER_ERROR)
            /\ pc' = "error"
  /\ UNCHANGED <<inputs, chunking, calls, answers, bfs_locals, visited_urls, stack>>

NextPage ==
  \/ crawl_page
  \/ PageContent

SpecPage == InitPage /\ [][NextPage]_vars

\* ------------------------------------------------------------------------
\* chunk_text on its own
\* ------------------------------------------------------------------------

\* the arguments of the calls: short texts with small chunk sizes and
\* overlaps from 0.0 to beyond 1.0, and the 2500-word text with the defaults
ChunkInputs ==
  {[n |-> n, chunk_size |-> c, overlap |-> o] :
     n \in 0..MaxWords, c \in 0..MaxChunkSize, o \in 0..MaxOverlap}
    \cup {[n |-> 2500, chunk_size |-> DEFAULT_CHUNK_SIZE, overlap |-> DEFAULT_OVERLAP]}

InitChunks ==
  /\ variant = "chunk_text"
  /\ web = [p \in Pages |-> <<>>]
  /\ robots = RobotsNotFound
  /\ url = RootUrl
  /\ max_depth = 0
  /\ omit_url_keywords = <<>>
  /\ pc = "chunk_text"
  /\ base_path = <<>>
  /\ round = 0
  /\ urls_to_crawl = {}
  /\ new_urls_to_crawl = {}
  /\ todo = {}
  /\ current_url = <<>>
  /\ visited_urls = {}
  /\ crawled_data = <<>>
  /\ stack = <<>>
  /\ result = Running
  /\ log = <<>>
  /\ answers = <<>>
  /\ sink = <<>>
  /\ calls = <<>>
  /\ \E arg \in ChunkInputs :
       /\ text = Words(arg.n)
       /\ chunk_size = arg.chunk_size
       /\ overlap = arg.overlap
  /\ chunks = <<>>

\* one call of chunk_text(text, chunk_size, overlap)
ChunkText ==
  /\ pc = "chunk_text"
  /\ IF chunk_text_raises(chunk_size, overlap)
     THEN /\ pc' = "ValueError"
          /\ UNCHANGED chunks
     ELSE /\ pc' = "chunked"
          /\ chunks' = chunk_text(text, chunk_size, overlap)
  /\ UNCHANGED <<inputs, text, chunk_size, overlap, calls, sink, answers, bfs_locals,
                 visited_urls, stack, result, log>>

NextChunks == ChunkText

SpecChunks == InitChunks /\ [][NextChunks]_vars

\* ------------------------------------------------------------------------
\* Concurrent requests: two POST /crawl/website handled at the same time.
\* Each request runs crawl_website and get_parsed_website_content with its
\* own locals; the web and the collection are shared.  The steps of the two
\* calls interleave in any order.
\* ------------------------------------------------------------------------

CallIds == {1, 2}

\* the webs the concurrent calls run against: the root links to UrlB and
\* UrlP, the other pages link to anything
ConcurrentWebs == {w \in Webs : SubSeq(w[RootUrl], 1, 2) = <<HrefTo(UrlB), UrlP>>}

\* VisitedBy with one set for all calls
VisitedByAny(cs, c) == UNION {cs[d].visited_urls : d \in DOMAIN cs}

\* the visited_urls a call tests: the set created by its own
\* `visited_urls = set()`
VisitedBy(cs, c) == cs[c].visited_urls

\* the locals of a request that has not started
NewCall(u, d) ==
  [url |-> u, max_depth |-> d, pc |-> "validate", base_path |-> <<>>, round |-> 0,
   urls_to_crawl |-> {}, new_urls_to_crawl |-> {}, todo |-> {}, current_url |-> <<>>,
   visited_urls |-> {}, crawled_data |-> <<>>, result |-> Running]

InitConcurrent ==
  /\ variant = "api_crawl"
  /\ web \in ConcurrentWebs
  /\ robots = RobotsNotFound
  /\ url = RootUrl
  /\ max_depth = 0
  /\ omit_url_keywords = <<>>
  /\ pc = "concurrent"
  /\ base_path = <<>>
  /\ round = 0
  /\ urls_to_crawl = {}
  /\ new_urls_to_crawl = {}
  /\ todo = {}
  /\ current_url = <<>>
  /\ visited_urls = {}
  /\ crawled_data = <<>>
  /\ stack = <<>>
  /\ result = Running
  /\ log = <<>>
  /\ answers = <<>>
  /\ sink = <<>>
  /\ calls \in {[c \in CallIds |-> NewCall(RootUrl, d[c])] : d \in [CallIds -> 0..MaxDepth]}
  /\ NoChunking

\* crawl_website of call c: validate_url(request.url), then the first lines
\* of get_parsed_website_content
CallStart(c) ==
  /\ pc = "concurrent"
  /\ calls[c].pc = "validate"
  /\ calls' = [calls EXCEPT ![c] =
       IF ~is_url_valid(@.url) THEN [@ EXCEPT !.pc = "error", !.result = Raised(BAD_REQUEST)]
       ELSE IF lib_is_crawling_allowed(@.url, robots) # "True"
       THEN [@ EXCEPT !.pc = "error", !.result = Raised(FORBIDDEN)]
       ELSE [@ EXCEPT !.pc = "round", !.urls_to_crawl = {calls[c].url},
                      !.base_path = RStripSlash(urlparse(calls[c].url).path)]]
  /\ UNCHANGED <<inputs, chunking, sink, answers, bfs_locals, visited_urls, stack, result, log,
                 pc>>

\* the head of the outer loop of call c, and its `return crawled_data`
CallRound(c) ==
  /\ pc = "concurrent"
  /\ calls[c].pc = "round"
  /\ calls' = [calls EXCEPT ![c] =
       IF @.round < Rounds(@.max_depth)
       THEN [@ EXCEPT !.round = @ + 1, !.new_urls_to_crawl = {}, !.todo = calls[c].urls_to_crawl,
                      !.pc = "iter"]
       ELSE [@ EXCEPT !.pc = "done", !.result = Returned(calls[c].crawled_data)]]
  /\ UNCHANGED <<inputs, chunking, sink, answers, bfs_locals, visited_urls, stack, result, log,
                 pc>>

\* the head of the inner loop of call c: the next url of its frontier
CallNextUrl(c) ==
  /\ pc = "concurrent"
  /\ calls[c].pc = "iter"
  /\ \E u \in calls[c].todo :
       calls' = [calls EXCEPT ![c] =
         [@ EXCEPT !.todo = @ \ {u}, !.current_url = u,
                   !.pc = IF IsUnvisited(u, VisitedBy(calls, c)) THEN "content" ELSE "iter"]]
  /\ UNCHANGED <<inputs, chunking, sink, answers, bfs_locals, visited_urls, stack, result, log,
                 pc>>

\* the inner loop of call c is exhausted
CallEndRound(c) ==
  /\ pc = "concurrent"
  /\ calls[c].pc = "iter"
  /\ calls[c].todo = {}
  /\ calls' = [calls EXCEPT ![c] =
       [@ EXCEPT !.urls_to_crawl = calls[c].new_urls_to_crawl, !.pc = "round"]]
  /\ UNCHANGED <<inputs, chunking, sink, answers, bfs_locals, visited_urls, stack, result, log,
                 pc>>

\* get_parsed_page_content(current_url), visited_urls.add and
\* crawled_data.append of call c; the chunks go to the shared collection
CallContent(c) ==
  /\ pc = "concurrent"
  /\ calls[c].pc = "content"
  /\ \E outcome \in FetchOutcomes(variant, calls[c].current_url) :
       IF outcome = "ok"
       THEN /\ sink' = sink \o ChunkIds(calls[c].current_url)
            /\ calls' = [calls EXCEPT ![c] =
                 [@ EXCEPT !.visited_urls = @ \cup {calls[c].current_url},
                           !.crawled_data = Append(@, [url |-> calls[c].current_url]),
                           !.pc = "links"]]
       ELSE /\ \E written \in WrittenBeforeFailure(calls[c].current_url) :
                 sink' = sink \o written
            /\ calls' = [calls EXCEPT ![c] =
                 [@ EXCEPT !.pc = "error", !.result = Raised(INTERNAL_SERVER_ERROR)]]
  /\ UNCHANGED <<inputs, chunking, answers, bfs_locals, visited_urls, stack, result, log, pc>>

\* `for link in get_page_urls(current_url)` of call c
CallLinks(c) ==
  /\ pc = "concurrent"
  /\ calls[c].pc = "links"
  /\ \E outcome \in FetchOutcomes(variant, calls[c].current_url) :
       IF outcome = "ok"
       THEN LET st == StageLinks([new |-> calls[c].new_urls_to_crawl, log |-> <<>>],
                                 get_page_urls(calls[c].current_url, web[calls[c].current_url]),
                                 1, calls[c].base_path, VisitedBy(calls, c), omit_url_keywords)
            IN  calls' = [calls EXCEPT ![c] =
                  [@ EXCEPT !.new_urls_to_crawl = st.new, !.pc = "iter"]]
       ELSE calls' = [calls EXCEPT ![c] =
              [@ EXCEPT !.pc = "error", !.result = Raised(INTERNAL_SERVER_ERROR)]]
  /\ UNCHANGED <<inputs, chunking, sink, answers, bfs_locals, visited_urls, stack, result, log,
                 pc>>

NextConcurrent ==
  \E c \in CallIds :
    \/ CallStart(c)
    \/ CallRound(c)
    \/ CallNextUrl(c)
    \/ CallEndRound(c)
    \/ CallContent(c)
    \/ CallLinks(c)

SpecConcurrent == InitConcurrent /\ [][NextConcurrent]_vars

\* ------------------------------------------------------------------------
\* is_url_valid on its own (app/lib/utils.py and app/utils.py hold the same
\* regular expression)
\* ------------------------------------------------------------------------

\* no crawl is running: the locals of the crawls, the log and the collection
\* are empty
NoCrawl ==
  /\ base_path = <<>>
  /\ round = 0
  /\ urls_to_crawl = {}
  /\ new_urls_to_crawl = {}
  /\ todo = {}
  /\ current_url = <<>>
  /\ visited_urls = {}
  /\ crawled_data = <<>>
  /\ stack = <<>>
  /\ result = Running
  /\ log = <<>>
  /\ sink = <<>>
  /\ calls = <<>>

\* what a candidate string starts with: a scheme with "://", or nothing
SchemeParts ==
  { <<"http", "://">>, <<"https", "://">>, <<"ftp", "://">>, <<"ftps", "://">>,
    <<"mailto", "://">>, <<>> }

\* the authority: dotted names, with "www." and with a port, a name without
\* a dot, a name with an empty label, a name with a space, nothing
HostParts ==
  { <<"h", ".", "c">>, <<"www", ".", "h", ".", "c">>, <<"h", ".", "c", ":", "8080">>,
    <<"localhost">>, <<"h", ".", ".", "c">>, <<"not", " ", "a", " ", "url">>, <<>> }

\* what follows the authority: nothing, a path, a path with a space, a query
\* with and without a path, a fragment
TailParts ==
  { <<>>, <<"/">>, <<"/", "a">>, <<"/", "a", " ", "b">>, <<"?", "q">>, <<"/", "a", "?", "q">>,
    <<"/", "a", "#", "b">> }

UrlCandidates == {sp \o hp \o tp : sp \in SchemeParts, hp \in HostParts, tp \in TailParts}

InitUrls ==
  /\ variant = "is_url_valid"
  /\ web = [p \in Pages |-> <<>>]
  /\ robots = RobotsNotFound
  /\ url \in UrlCandidates
  /\ max_depth = 0
  /\ omit_url_keywords = <<>>
  /\ pc = "is_url_valid"
  /\ answers = <<>>
  /\ NoCrawl
  /\ NoChunking

\* is_url_valid(url) of both modules
ValidateUrl ==
  /\ pc = "is_url_valid"
  /\ answers' = [m \in {"app.lib.utils", "app.utils"} |-> is_url_valid(url)]
  /\ pc' = "validated"
  /\ UNCHANGED <<inputs, chunking, calls, sink, bfs_locals, visited_urls, stack, result, log>>

NextUrls == ValidateUrl

SpecUrls == InitUrls /\ [][NextUrls]_vars

\* ------------------------------------------------------------------------
\* format_markdown for list elements (app/lib/utils.py, app/utils.py)
\* ------------------------------------------------------------------------

\* str.strip(): leading and trailing whitespace removed
RECURSIVE StripWs(_)
StripWs(s) ==
  IF s # <<>> /\ s[1] \in {" ", "\n"} THEN StripWs(Tail(s))
  ELSE IF s # <<>> /\ s[Len(s)] \in {" ", "\n"} THEN StripWs(SubSeq(s, 1, Len(s) - 1))
  ELSE s

\* the decimal numeral of n, 0 <= n <= 9
Decimal(n) == <<"0", "1", "2", "3", "4", "5", "6", "7", "8", "9">>[n + 1]

\* "\n".join(lines)
RECURSIVE JoinLines(_)
JoinLines(lines) ==
  IF lines = <<>> THEN <<>>
  ELSE IF Len(lines) = 1 THEN lines[1]
  ELSE lines[1] \o <<"\n">> \o JoinLines(Tail(lines))

\* the concatenation of a sequence of texts
RECURSIVE Concat(_)
Concat(texts) == IF texts = <<>> THEN <<>> ELSE texts[1] \o Concat(Tail(texts))

\* the text of an <li>: nothing, blank, a word, a word between blanks
ItemTexts == {<<>>, <<" ">>, <<"a">>, <<" ", "b", " ">>}

\* an <li> holds its own text and then, possibly, a nested list with one <li>
ListItems == [text : ItemTexts, nested : {<<>>, << <<"c">> >>}]

\* a list element: its tag name and its <li> children in document order
Elements ==
  [name : {"ol", "ul"}, li : UNION {[1..n -> ListItems] : n \in 0..MaxItems}]

\* li.get_text(): the text of the <li> and of everything inside it
get_text(li) == li.text \o Concat(li.nested)

\* element.find_all("li"): the text of every <li> inside the element, the
\* nested ones included, in document order
RECURSIVE find_all_li(_)
find_all_li(items) ==
  IF items = <<>> THEN <<>>
  ELSE <<get_text(items[1])>> \o items[1].nested \o find_all_li(Tail(items))

\* the loop of format_markdown_lists from index i on: an <li> with an empty
\* stripped text adds no line, and i goes on counting
RECURSIVE ListLines(_, _, _)
ListLines(li_texts, i, element_type) ==
  IF i > Len(li_texts) THEN <<>>
  ELSE LET li_text == StripWs(li_texts[i])
           list_type_markdown == IF element_type = "ol" THEN <<Decimal(i), ".">> ELSE <<"-">>
       IN  (IF li_text # <<>> THEN <<list_type_markdown \o <<" ">> \o li_text>> ELSE <<>>)
             \o ListLines(li_texts, i + 1, element_type)

\* app/lib/utils.py format_markdown_lists
format_markdown_lists(element) ==
  JoinLines(ListLines(find_all_li(element.li), 1, element.name))

\* app/lib/utils.py format_markdown of a list element
lib_format_markdown(element) == StripWs(format_markdown_lists(element))

\* app/utils.py format_markdown of a list element
utils_format_markdown(element) ==
  LET li_texts == find_all_li(element.li)
      lines == [idx \in 1..Len(li_texts) |->
                  (IF element.name = "ol" THEN <<Decimal(idx), ".">> ELSE <<"-">>)
                    \o <<" ">> \o li_texts[idx]]
  IN  StripWs(JoinLines(lines))

InitMarkdown ==
  /\ variant = "format_markdown"
  /\ web = [p \in Pages |-> <<>>]
  /\ robots = RobotsNotFound
  /\ url = RootUrl
  /\ max_depth = 0
  /\ omit_url_keywords = <<>>
  /\ pc = "format_markdown"
  /\ answers = <<>>
  /\ NoCrawl
  /\ text \in Elements
  /\ chunk_size = DEFAULT_CHUNK_SIZE
  /\ overlap = DEFAULT_OVERLAP
  /\ chunks = <<>>

\* format_markdown(element, ...) of both modules
FormatMarkdown ==
  /\ pc = "format_markdown"
  /\ answers' = [m \in {"app.lib.utils", "app.utils"} |->
                   IF m = "app.lib.utils" THEN lib_format_markdown(text)
                   ELSE utils_format_markdown(text)]
  /\ pc' = "formatted"
  /\ UNCHANGED <<inputs, chunking, calls, sink, bfs_locals, visited_urls, stack, result, log>>

NextMarkdown == FormatMarkdown

SpecMarkdown == InitMarkdown /\ [][NextMarkdown]_vars

\* ------------------------------------------------------------------------
\* Observations used by the properties
\* ------------------------------------------------------------------------

\* the pages whose content or links were fetched over the network
FetchedPages == {log[i].url : i \in {j \in DOMAIN log : log[j].ev = "GET"}} \ {robots_url(url)}

\* number of network fetches of u
Gets(u) == Cardinality({i \in DOMAIN log : log[i] = Event("GET", u)})

\* index of the first network fetch of u in the log, 0 if none
FirstGet(u) ==
  IF Gets(u) = 0 THEN 0
  ELSE CHOOSE i \in DOMAIN log : log[i] = Event("GET", u) /\ \A j \in 1..(i - 1) : log[j] # log[i]

\* an event of kind ev about u was logged before index i
LoggedBefore(ev, u, i) == \E j \in 1..(i - 1) : log[j] = Event(ev, u)

RECURSIVE Flatten(_, _)
Flatten(frames, i) ==
  IF i > Len(frames) THEN <<>> ELSE frames[i].crawled_data \o Flatten(frames, i + 1)

\* the records the call holds: the list of the breadth-first loop, the lists
\* of the frames of the recursion, or the list handed to the caller
Collected ==
  IF pc = "done" THEN result.data
  ELSE IF variant = "api_crawl" THEN crawled_data
  ELSE Flatten(stack, 1)

\* the links the Link Extractor reports for page u
LinksOf(u) ==
  IF u \in DOMAIN web
  THEN {get_page_urls(u, web[u])[i] : i \in 1..Len(get_page_urls(u, web[u]))}
  ELSE {}

\* the urls at most k link hops away from the root
RECURSIVE WithinHops(_)
WithinHops(k) ==
  IF k <= 0 THEN {url}
  ELSE WithinHops(k - 1) \cup UNION {LinksOf(u) : u \in WithinHops(k - 1)}

\* the non-empty Disallow paths listed for the user agent "*"
StarDisallows(resp) ==
  LET rules == get_crawling_rules(resp.text)
  IN  IF <<"*">> \in DOMAIN rules THEN NonEmpty(rules[<<"*">>].Disallow) ELSE <<>>

\* robots.txt was served and disallows u: u starts with base + path for a
\* non-empty Disallow path of the "*" block
RobotsDisallows(u, resp) ==
  /\ resp.kind = "response" /\ resp.status = OK
  /\ \E i \in 1..Len(StarDisallows(resp)) :
       StartsWith(u, get_base_url(u) \o StarDisallows(resp)[i])

\* ------------------------------------------------------------------------
\* Properties
\* ------------------------------------------------------------------------

C2_DistinctRecords ==
  \A i, j \in 1..Len(Collected) : Collected[i].url = Collected[j].url => i = j

\* a breadth-first crawl has returned three records on a cyclic web in
\* which UrlP is linked from the root and from UrlB, so that UrlP is staged
\* from UrlB while it is itself in the frontier
C2_Witness ==
  /\ variant = "api_crawl" /\ pc = "done"
  /\ Len(result.data) = 3
  /\ {UrlB, UrlP} \subseteq LinksOf(RootUrl)
  /\ UrlP \in LinksOf(UrlB)
  /\ RootUrl \in LinksOf(UrlP)

\* C3 (as stated): within one breadth-first crawl call no url is fetched
\* over the network more than once.
C3_FetchedAtMostOnce ==
  variant = "api_crawl" => \A u \in FetchedPages : Gets(u) <= 1

\* C4: a breadth-first crawl with max_depth = d fetches only pages at most
\* d link hops away from the root.
C4_DepthCeiling ==
  variant = "api_crawl" => FetchedPages \subseteq WithinHops(max_depth)

\* a breadth-first crawl with max_depth = 1 has returned while a page in the
\* root's path lies two hops away, and that page was not fetched
C4_Witness ==
  /\ variant = "api_crawl" /\ pc = "done" /\ max_depth = 1
  /\ UrlP \in WithinHops(2) \ WithinHops(1)
  /\ FetchedPages = {RootUrl, UrlB}

\* C5 (as stated): once the breadth-first crawl has gathered records, a
\* failing fetch does not abort it: the call does not end by raising.
C5_FailureDoesNotAbort ==
  (variant = "api_crawl" /\ crawled_data # <<>>) => result.status # "raised"

\* C6 (as stated): every network fetch of a page is preceded by the URL
\* Policy check and the Robots Evaluator check of that page, and both
\* checks passed.
C6_ChecksBeforeFetch ==
  \A u \in FetchedPages :
    /\ LoggedBefore("is_url_valid", u, FirstGet(u))
    /\ LoggedBefore("is_crawling_allowed", u, FirstGet(u))
    /\ is_url_valid(u)
    /\ is_crawling_allowed(variant, u, robots) = "True"

\* C7 (as stated): every page fetched by the breadth-first crawl is one that
\* robots.txt does not disallow.
C7_FetchedAreAllowed ==
  variant = "api_crawl" => \A u \in FetchedPages : ~RobotsDisallows(u, robots)

\* C8 (as stated): on a robots.txt served with status 200 every
\* implementation answers False exactly when the url starts with
\* base + path for a non-empty Disallow path of the "*" block.
C8_DisallowPrefix ==
  (pc = "evaluated" /\ robots.kind = "response" /\ robots.status = OK) =>
    \A v \in Implementations :
      answers[v] = IF RobotsDisallows(url, robots) THEN "False" ELSE "True"

\* C9 (as stated): when the robots.txt fetch fails, every implementation
\* answers True and raises nothing.
C9_FailOpen ==
  (pc = "evaluated" /\ RequestOutcome(robots) # "ok") =>
    \A v \in Implementations : answers[v] = "True"

\* the "*" block of the file holds Disallow lines with an empty value and
\* nothing else
OnlyEmptyDisallow(resp) ==
  LET rules == get_crawling_rules(resp.text)
  IN  /\ resp.kind = "response" /\ resp.status = OK
      /\ <<"*">> \in DOMAIN rules
      /\ rules[<<"*">>].Allow = <<>>
      /\ rules[<<"*">>].Disallow # <<>>
      /\ NonEmpty(rules[<<"*">>].Disallow) = <<>>

\* C10 (as stated): a "*" block holding only an empty Disallow makes every
\* implementation answer True.
C10_EmptyDisallowAllows ==
  (pc = "evaluated" /\ OnlyEmptyDisallow(robots)) =>
    \A v \in Implementations : answers[v] = "True"

\* a logged event is a network fetch of a page (not of a robots.txt)
IsPageGet(e) == e.ev = "GET" /\ e.url # robots_url(e.url)

\* C11 (as stated): every network fetch of a page is preceded by a delay
\* with no other page fetch in between, so that no two page fetches happen
\* without a delay between them.
C11_DelayBeforeEveryFetch ==
  \A j \in DOMAIN log :
    IsPageGet(log[j]) =>
      \E k \in 1..(j - 1) :
        /\ log[k].ev = "sleep"
        /\ \A m \in (k + 1)..(j - 1) : ~IsPageGet(log[m])

\* the path prefix of the root of the call
RootPathPrefix == RStripSlash(urlparse(url).path)

\* u has the network location of the root and a path under the root's prefix
ScopedToRoot(u) ==
  /\ urlparse(u).netloc = urlparse(url).netloc
  /\ StartsWith(urlparse(u).path, RootPathPrefix)

\* C12: every record a breadth-first crawl holds or returns is of a url with
\* the root's network location and a path that starts with the root's path
\* prefix.
C12_ScopedToRoot ==
  variant = "api_crawl" => \A i \in 1..Len(Collected) : ScopedToRoot(Collected[i].url)

\* a breadth-first crawl has returned more than the root's record from a
\* root that links to a page of its host outside its path and to another host
C12_Witness ==
  /\ variant = "api_crawl" /\ pc = "done"
  /\ Len(result.data) >= 2
  /\ UrlX \in LinksOf(url)
  /\ \E i \in 1..Len(web[url]) : web[url][i] = UrlG

\* C13 (as stated): every record returned by a crawl call, the root's
\* included, is of a url for which is_url_valid is true.
C13_ReturnedAreValid ==
  pc = "done" => \A i \in 1..Len(result.data) : is_url_valid(result.data[i].url)

\* u contains one of the omit keywords of the call as a substring
ContainsOmitted(u) ==
  \E i \in 1..Len(omit_url_keywords) : Contains(u, omit_url_keywords[i])

\* the urls a breadth-first crawl has staged, fetched or recorded, the root
\* apart
Discovered ==
  (urls_to_crawl \cup new_urls_to_crawl \cup FetchedPages
     \cup {Collected[i].url : i \in 1..Len(Collected)}) \ {url}

\* C14: in a breadth-first crawl no url discovered through a link and
\* containing an omit keyword is staged in a frontier, fetched or recorded.
C14_OmittedNeverCrawled ==
  variant = "api_crawl" => \A u \in Discovered : ~ContainsOmitted(u)

\* a breadth-first crawl called with the omit keyword "/p" has returned the
\* records of the root and of another page, and the root links to UrlP
C14_Witness ==
  /\ variant = "api_crawl" /\ pc = "done"
  /\ omit_url_keywords = << <<"/", "p">> >>
  /\ UrlP \in LinksOf(url)
  /\ UrlB \in FetchedPages
  /\ Len(result.data) >= 2

\* C15: every call of the Link Extractor that returns, returns a list whose
\* first element is the url it was called with.
C15_FirstIsInput ==
  (pc = "done" /\ result.status = "returned") =>
    /\ Len(result.data) >= 1
    /\ result.data[1] = url

\* the Link Extractor has returned the url followed by two links resolved
\* from a page whose first anchor leads elsewhere
C15_Witness ==
  /\ pc = "done" /\ result.status = "returned"
  /\ Len(web[url]) >= 2
  /\ Len(result.data) = 3
  /\ result.data[2] # url

\* C16: no url the Link Extractor returns has a network location other than
\* that of the url it was called with, whatever the hrefs of the page.
C16_SameHost ==
  (pc = "done" /\ result.status = "returned") =>
    \A i \in 1..Len(result.data) : urlparse(result.data[i]).netloc = urlparse(url).netloc

\* the Link Extractor has returned from a page with an absolute link to
\* another host, a "//host" link to another host and a bare relative link,
\* and kept the relative one
C16_Witness ==
  /\ pc = "done" /\ result.status = "returned"
  /\ {UrlG, <<"//", "g", ".", "c", "/", "a">>, <<"b">>} \subseteq {web[url][i] : i \in 1..Len(web[url])}
  /\ Len(result.data) = 2

\* C17 (as stated): POST /crawl/page ends with 400 for a url the URL Policy
\* rejects and with 403 for a url robots.txt disallows, in both cases
\* without a fetch of the page, and with 500 when the fetch or the parsing
\* of the page fails.
C17_PageStatusCodes ==
  pc \in {"done", "error"} =>
    /\ ~is_url_valid(url) => (result.code = BAD_REQUEST /\ FetchedPages = {})
    /\ (is_url_valid(url) /\ RobotsDisallows(url, robots)) =>
         (result.code = FORBIDDEN /\ FetchedPages = {})
    /\ (url \in FetchedPages /\ result.status = "raised") =>
         result.code = INTERNAL_SERVER_ERROR

\* the chunks are windows of the text: none is empty or longer than
\* chunk_size, each starts chunk_size - int(chunk_size * overlap) words after
\* the one before, every word is in some chunk, the last chunk ends at the
\* last word, and the 2500-word text chunked with the defaults gives three
\* chunks starting at words 0, 900 and 1800
ChunkWindows ==
  LET n == Len(text)
      step == chunk_size - ((chunk_size * overlap) \div 10)
  IN  /\ \A k \in 1..Len(chunks) : chunks[k] # <<>> /\ Len(chunks[k]) <= chunk_size
      /\ \A k \in 2..Len(chunks) : chunks[k][1] = chunks[k - 1][1] + step
      /\ \A w \in 1..n : \E k \in 1..Len(chunks) : \E j \in 1..Len(chunks[k]) : chunks[k][j] = w
      /\ n > 0 => /\ chunks # <<>>
                  /\ chunks[1][1] = 1
                  /\ chunks[Len(chunks)][Len(chunks[Len(chunks)])] = n
      /\ (n = 2500 /\ chunk_size = 1000 /\ overlap = 1) =>
           /\ Len(chunks) = 3
           /\ chunks[1][1] = 1 /\ chunks[2][1] = 901 /\ chunks[3][1] = 1801

\* C18 (as stated): whatever its arguments, the list chunk_text returns is
\* made of such windows.
C18_AnyArguments ==
  pc = "chunked" => ChunkWindows

\* C18 (amended): for chunk_size >= 1 and 0 <= overlap < 1, chunk_text
\* returns, and the list it returns is made of such windows.
C18_ChunkWindows ==
  (pc \in {"chunked", "ValueError"} /\ chunk_size >= 1 /\ overlap \in 0..9) =>
    (pc = "chunked" /\ ChunkWindows)

\* chunk_text has returned three chunks that overlap, the last one shorter
\* than chunk_size
C18_Witness ==
  /\ pc = "chunked" /\ chunk_size >= 1 /\ overlap \in 1..9
  /\ Len(chunks) = 3
  /\ chunks[2][1] <= chunks[1][Len(chunks[1])]
  /\ Len(chunks[3]) < chunk_size

\* C19: within one crawl call no chunk id is written to the collection more
\* than once.
C19_WriteOncePerChunk ==
  \A i, j \in 1..Len(sink) : sink[i] = sink[j] => i = j

\* a breadth-first crawl over a cyclic web has returned after writing the
\* three chunks of the root and the chunk of UrlP, which links back to the
\* root and is linked from the root and from UrlB
C19_Witness ==
  /\ variant = "api_crawl" /\ pc = "done" /\ max_depth = 2
  /\ Len(sink) >= 4
  /\ {UrlB, UrlP} \subseteq LinksOf(RootUrl)
  /\ UrlP \in LinksOf(UrlB)
  /\ RootUrl \in LinksOf(UrlP)

\* the urls a breadth-first crawl run on its own visits in k more rounds
RECURSIVE AloneRun(_, _, _, _)
AloneRun(frontier, visited, bp, k) ==
  IF k = 0 THEN visited
  ELSE LET crawled == frontier \ visited
           staged == {l \in UNION {LinksOf(u) : u \in crawled} :
                        /\ StartsWith(urlparse(l).path, bp)
                        /\ l \notin visited \cup crawled
                        /\ is_url_valid(l)
                        /\ ~ContainsOmitted(l)}
       IN  AloneRun(staged, visited \cup crawled, bp, k - 1)

\* the visited set of the call (root, d) run on its own to its return
AloneVisited(root, d) == AloneRun({root}, {}, RStripSlash(urlparse(root).path), d + 1)

\* a single breadth-first crawl that returns has visited AloneVisited
AloneIsSingleCall ==
  (variant = "api_crawl" /\ pc = "done") => visited_urls = AloneVisited(url, max_depth)

\* the urls of the records of call c
RecordedBy(c) == {calls[c].crawled_data[i].url : i \in 1..Len(calls[c].crawled_data)}

\* C20: under every interleaving of two concurrent breadth-first crawls,
\* each call has one record for each url of its own visited set and no
\* other, and a call that returns has the visited set of the same call run
\* alone and returns its records: no url is skipped because the other call
\* visited it.
C20_IndependentVisitedSets ==
  \A c \in DOMAIN calls :
    /\ RecordedBy(c) = calls[c].visited_urls
    /\ Len(calls[c].crawled_data) = Cardinality(calls[c].visited_urls)
    /\ calls[c].pc = "done" =>
         /\ calls[c].result.data = calls[c].crawled_data
         /\ calls[c].visited_urls = AloneVisited(calls[c].url, calls[c].max_depth)

\* both calls have returned three records each, and both had crawled the
\* root before either crawled a second page: the first six chunks written
\* are those of the root, three by each call
C20_Witness ==
  /\ \A c \in CallIds : calls[c].pc = "done" /\ Len(calls[c].result.data) = 3
  /\ Len(sink) >= 6
  /\ \A i \in 1..6 : sink[i].url = RootUrl

\* the top-level call has returned or raised
Terminated == pc \in {"done", "error"}

\* along the frames of the recursion the depth goes down by one per frame,
\* and a frame whose depth is 0 is never expanded
DepthDescends ==
  /\ \A i \in 1..(Len(stack) - 1) : stack[i + 1].depth = stack[i].depth - 1
  /\ \A i \in 1..Len(stack) : stack[i].depth = 0 => stack[i].pc = "enter"

\* the breadth-first loop starts at most max_depth + 1 rounds, none for a
\* negative max_depth
RoundsBounded ==
  variant = "api_crawl" => round <= (IF max_depth < 0 THEN 0 ELSE max_depth + 1)

\* C21: every crawl call terminates, on cyclic webs and for a negative depth
\* argument as well; the depth never increases along a traversal path, and
\* nothing is expanded at the floor of the depth.
C21_Terminates ==
  /\ [](DepthDescends /\ RoundsBounded)
  /\ <>Terminated

\* a depth-first crawl called with depth = -1, which never meets the floor,
\* has returned the records of all four pages of the host on a cyclic web
C21_Witness ==
  /\ variant = "crawler" /\ pc = "done" /\ max_depth = -1
  /\ Len(result.data) = 4
  /\ UrlB \in LinksOf(RootUrl) /\ UrlP \in LinksOf(UrlB) /\ RootUrl \in LinksOf(UrlP)

RecognizedSchemes == {"http", "https", "ftp", "ftps"}

\* the authority of u: what lies between "://" and the first "/", "?" or "#"
Authority(u) == urlparse(u).netloc

\* the host of an authority: the authority without its ":port"
HostOf(auth) == SubSeq(auth, 1, FirstIndex(auth, {":"}, 1) - 1)

\* u has the shape scheme://[www.]domain.tld[/path]
HasUrlShape(u) ==
  /\ HasScheme(u) /\ u[1] \in RecognizedSchemes
  /\ IsDottedHost(Authority(u))
  /\ LET rest == SubSeq(u, 3 + Len(Authority(u)), Len(u))
     IN  rest = <<>> \/ (rest[1] = "/" /\ \A i \in 1..Len(rest) : rest[i] # " ")

\* u is a well-formed absolute URL of a recognized scheme: a dotted host, an
\* optional port, and an optional path, query and fragment without a space
WellFormedAbsolute(u) ==
  /\ HasScheme(u) /\ u[1] \in RecognizedSchemes
  /\ IsDottedHost(HostOf(Authority(u)))
  /\ \A i \in 1..Len(u) : u[i] # " "

\* u lacks a recognized scheme or a dotted domain
LacksSchemeOrDomain(u) ==
  \/ ~HasScheme(u)
  \/ u[1] \notin RecognizedSchemes
  \/ ~IsDottedHost(HostOf(Authority(u)))

\* C22 (as stated): is_url_valid answers true exactly for the strings of the
\* shape scheme://[www.]domain.tld[/path]; it answers true for every
\* well-formed absolute URL and false for every string that lacks a
\* recognized scheme or a dotted domain.
C22_ValidIffWellFormed ==
  pc = "validated" =>
    \A m \in DOMAIN answers :
      /\ answers[m] <=> HasUrlShape(url)
      /\ WellFormedAbsolute(url) => answers[m]
      /\ LacksSchemeOrDomain(url) => ~answers[m]

\* C23: within a crawl call a url is added to the visited set at most once,
\* and the links of a url are extracted only after the url was added.
C23_VisitedOnceBeforeLinks ==
  /\ \A i, j \in DOMAIN log :
       (log[i].ev = "visited_urls.add" /\ log[i] = log[j]) => i = j
  /\ \A j \in DOMAIN log :
       log[j].ev = "get_page_urls" => LoggedBefore("visited_urls.add", log[j].url, j)

\* a breadth-first crawl of a cyclic web has returned: UrlP was staged from
\* the root and again from UrlB, and was added to the visited set and had
\* its links extracted once
C23_Witness ==
  /\ variant = "api_crawl" /\ pc = "done" /\ max_depth = 2
  /\ {UrlB, UrlP} \subseteq LinksOf(RootUrl)
  /\ UrlP \in LinksOf(UrlB)
  /\ RootUrl \in LinksOf(UrlP)
  /\ \E j \in DOMAIN log : log[j] = Event("get_page_urls", UrlP)

\* the links of page u that a breadth-first crawl follows: under the path
\* prefix of the root, valid, and free of the omit keywords
FollowedLinks(u) ==
  {l \in LinksOf(u) : /\ StartsWith(urlparse(l).path, RootPathPrefix)
                      /\ is_url_valid(l)
                      /\ ~ContainsOmitted(l)}

\* the urls at most k followed links away from the root
RECURSIVE FollowedWithin(_)
FollowedWithin(k) ==
  IF k <= 0 THEN {url}
  ELSE FollowedWithin(k - 1) \cup UNION {FollowedLinks(u) : u \in FollowedWithin(k - 1)}

\* more hops than any page of the web is away from the root
Unreachable == Cardinality(Pages) + 1

\* the hop distance of u from the root along followed links
HopDistance(u) ==
  IF u \in FollowedWithin(Cardinality(Pages))
  THEN CHOOSE k \in 0..Cardinality(Pages) :
         /\ u \in FollowedWithin(k)
         /\ \A j \in 0..(k - 1) : u \notin FollowedWithin(j)
  ELSE Unreachable

\* C24: the result of a breadth-first crawl starts with the record of the
\* root, and a record never comes after the record of a page more hops away
C24_BreadthFirstOrder ==
  (variant = "api_crawl" /\ pc = "done" /\ Len(result.data) > 0) =>
    /\ result.data[1].url = url
    /\ \A i, j \in 1..Len(result.data) :
         i < j => HopDistance(result.data[i].url) <= HopDistance(result.data[j].url)

\* a breadth-first crawl has returned the root, then a page one hop away,
\* then a page two hops away
C24_Witness ==
  /\ variant = "api_crawl" /\ pc = "done"
  /\ Len(result.data) = 3
  /\ HopDistance(result.data[2].url) = 1
  /\ HopDistance(result.data[3].url) = 2

\* the urls the recursion has visited that robots.txt disallows
VisitedDisallowed == {u \in visited_urls : RobotsDisallows(u, robots)}

\* C25: a depth-first crawl that has visited a url disallowed by robots.txt
\* ends with the status 403 and returns no records
C25_DisallowedIsTerminal ==
  (variant \in {"crawl", "crawler"} /\ Terminated /\ VisitedDisallowed # {}) =>
    result = Raised(FORBIDDEN)

\* markdown.split("\n"): the lines of a Markdown string
RECURSIVE SplitLines(_)
SplitLines(s) ==
  LET k == FirstIndex(s, {"\n"}, 1)
  IN  IF k > Len(s) THEN <<s>>
      ELSE <<SubSeq(s, 1, k - 1)>> \o SplitLines(SubSeq(s, k + 1, Len(s)))

\* the line "k. item" for the k-th <li>, blanks at its ends removed; the item
\* is the text of the <li> as it stands or stripped
ItemLines(k, li) ==
  {StripWs(<<Decimal(k), ".", " ">> \o item) : item \in {get_text(li), StripWs(get_text(li))}}

\* C26: an ordered list with n <li> children is formatted as n lines joined
\* by newlines, and line k is "k. " followed by the text of the k-th <li>
\* (blanks at the ends of a line apart)
C26_OrderedListLines ==
  (pc = "formatted" /\ text.name = "ol") =>
    \A m \in DOMAIN answers :
      LET lines == IF answers[m] = <<>> THEN <<>> ELSE SplitLines(answers[m])
      IN  /\ Len(lines) = Len(text.li)
          /\ \A k \in 1..Len(lines) : StripWs(lines[k]) \in ItemLines(k, text.li[k])

\* the urls of the records of the result
Recorded == {result.data[i].url : i \in 1..Len(result.data)}

\* C27: a breadth-first crawl that returns (no fetch has failed) has a record
\* for every url at most max_depth followed links away from the root
C27_BreadthFirstComplete ==
  (variant = "api_crawl" /\ pc = "done" /\ max_depth >= 0) =>
    FollowedWithin(max_depth) \subseteq Recorded

\* a breadth-first crawl with max_depth = 2 has returned a record for a page
\* two followed links away from the root, on a web where the root also
\* links to a page outside its path prefix
C27_Witness ==
  /\ variant = "api_crawl" /\ pc = "done" /\ max_depth = 2
  /\ \E u \in Recorded : HopDistance(u) = 2
  /\ UrlX \in LinksOf(url) \ FollowedLinks(url)

\* the links of page u that a recursive crawl follows: the valid ones
ValidLinks(u) == {l \in LinksOf(u) : is_url_valid(l)}

\* the urls at most k valid links away from the root
RECURSIVE ValidWithin(_)
ValidWithin(k) ==
  IF k <= 0 THEN {url}
  ELSE ValidWithin(k - 1) \cup UNION {ValidLinks(u) : u \in ValidWithin(k - 1)}

\* C28: a recursive crawl called with depth d >= 1 that returns (no fetch
\* has failed, robots.txt allows every url) has a record for every url at
\* most d - 1 valid links away from the root
C28_DepthFirstComplete ==
  (variant \in {"crawl", "crawler"} /\ pc = "done" /\ max_depth >= 1) =>
    ValidWithin(max_depth - 1) \subseteq Recorded

\* the robots.txt response with every Allow line taken out of the text
WithoutAllow(resp) ==
  IF resp.kind = "response"
  THEN [resp EXCEPT !.text = SelectSeq(@, LAMBDA l : ~StartsWith(Strip(l), <<"Allow:">>))]
  ELSE resp

\* the Allow paths listed for the user agent "*"
StarAllows(resp) ==
  LET rules == get_crawling_rules(resp.text)
  IN  IF <<"*">> \in DOMAIN rules THEN rules[<<"*">>].Allow ELSE <<>>

\* C29: the answer of is_crawling_allowed of app/utils.py and app/crawler.py
\* is the answer for the same robots.txt without its Allow lines
C29_AllowNeverMatters ==
  pc = "evaluated" =>
    \A v \in {"crawl", "crawler"} :
      answers[v] = is_crawling_allowed(v, url, WithoutAllow(robots))

\* a robots.txt whose "*" block has an Allow path and a Disallow path that
\* both match the url has been evaluated: the answer is False
C29_Witness ==
  /\ pc = "evaluated"
  /\ robots.kind = "response" /\ robots.status = OK
  /\ AnyPrefix(url, get_base_url(url), StarAllows(robots))
  /\ RobotsDisallows(url, robots)
  /\ answers["crawl"] = "False" /\ answers["crawler"] = "False"

\* line i of the robots.txt is a User-agent line
IsHead(lines, i) == StartsWith(Strip(lines[i]), <<"User-agent:">>)

\* the index of the last User-agent line naming agent
LastHead(lines, agent) ==
  CHOOSE h \in DOMAIN lines :
    /\ IsHead(lines, h) /\ DirectiveValue(Strip(lines[h])) = agent
    /\ \A j \in (h + 1)..Len(lines) :
         ~(IsHead(lines, j) /\ DirectiveValue(Strip(lines[j])) = agent)

\* the paths of the lines with the given directive in the block headed by
\* line h: the lines after h up to the next User-agent line
BlockPaths(lines, h, directive) ==
  LET e == CHOOSE k \in (h + 1)..(Len(lines) + 1) :
             /\ k = Len(lines) + 1 \/ IsHead(lines, k)
             /\ \A j \in (h + 1)..(k - 1) : ~IsHead(lines, j)
      sel == SelectSeq(SubSeq(lines, h + 1, e - 1),
                       LAMBDA l : StartsWith(Strip(l), <<directive>>))
  IN  [i \in DOMAIN sel |-> DirectiveValue(Strip(sel[i]))]

\* the agents named by the User-agent lines
Agents(lines) == {DirectiveValue(Strip(lines[h])) : h \in {i \in DOMAIN lines : IsHead(lines, i)}}

\* the rules kept for agent are the Allow and Disallow paths of the last
\* block headed by agent
KeepsLastBlock(lines, agent) ==
  LET rules == get_crawling_rules(lines)
  IN  /\ rules[agent].Allow = BlockPaths(lines, LastHead(lines, agent), "Allow:")
      /\ rules[agent].Disallow = BlockPaths(lines, LastHead(lines, agent), "Disallow:")

\* the User-agent lines naming agent
Heads(lines, agent) ==
  {h \in DOMAIN lines : IsHead(lines, h) /\ DirectiveValue(Strip(lines[h])) = agent}

\* C30 as stated: for every agent, whatever its token, that heads more than
\* one block, get_crawling_rules keeps the Allow and Disallow paths of the
\* last block headed by that agent and nothing else
C30_LastBlockWinsAnyToken ==
  (pc = "evaluated" /\ robots.kind = "response") =>
    /\ DOMAIN get_crawling_rules(robots.text) = Agents(robots.text)
    /\ \A agent \in Agents(robots.text) :
         Cardinality(Heads(robots.text, agent)) > 1 => KeepsLastBlock(robots.text, agent)

\* C30: get_crawling_rules keeps, for every agent with a non-empty token
\* named by a User-agent line, the Allow and Disallow paths of the last block
\* headed by that agent and nothing else: earlier blocks of the agent and
\* the directive lines before the first User-agent line leave no trace; an
\* agent with an empty token keeps no path at all
C30_LastBlockWins ==
  (pc = "evaluated" /\ robots.kind = "response") =>
    /\ DOMAIN get_crawling_rules(robots.text) = Agents(robots.text)
    /\ \A agent \in Agents(robots.text) :
         IF agent # <<>> THEN KeepsLastBlock(robots.text, agent)
         ELSE get_crawling_rules(robots.text)[agent] = NoRules

\* a robots.txt has been parsed in which a Disallow line follows the first
\* "User-agent: *" line and a second "User-agent: *" line closes the text:
\* no Disallow path is kept for "*"
C30_Witness ==
  /\ pc = "evaluated" /\ robots.kind = "response" /\ Len(robots.text) = 3
  /\ IsHead(robots.text, 1) /\ IsHead(robots.text, 3)
  /\ robots.text[1] = robots.text[3]
  /\ DirectiveValue(robots.text[1]) # <<>>
  /\ StartsWith(robots.text[2], <<"Disallow:", " ">>)
  /\ get_crawling_rules(robots.text)[DirectiveValue(robots.text[1])] = NoRules
====
